---- MODULE Spec2Model ----
(***************************************************************************)
(* State-machine model of the RAG chat bot: the incremental sync of the    *)
(* FAISS vector store against the document directory (RAG.add_documents),  *)
(* the process life cycle (RAG.__init__ reloading the persisted store),    *)
(* the retrieval-mode switch and the query pipeline (RAG.generate).        *)
(*                                                                         *)
(* The vector store is held twice: vs is the FAISS object in memory,       *)
(* vsDisk is what save_local last wrote under VECTOR_STORE_PATH.  The      *)
(* record manager is an SQLite file in the same directory whose every      *)
(* update commits at once, so rec is always the on-disk table.             *)
(*                                                                         *)
(* Four specifications share the variables: Spec (sync and life cycle),    *)
(* SpecQuery (the query side over an indexed directory), SpecStore (a      *)
(* client of the conversation methods of ChatBot) and SpecMain (the        *)
(* command loop of main over the conversation store).                      *)
(***************************************************************************)
EXTENDS Integers, Sequences, FiniteSets, TLC

\* ------------------------------------------------------------------ bounds
\* langchain's index() handles the chunks in batches (batch_size, 100 by
\* default); the model scales the batch down so that a pass has several.
BatchSize == 2
\* the messages table is capped: a chat runs while there is room for its
\* two messages
MaxMessages == 4

\* ------------------------------------------------------- program constants
RagK == 3
RagFetchK == 10
RerankerTopN == 5

\* --------------------------------------------------------------- documents
Files == {"A", "B"}
\* os.listdir order of the directory
FileOrder == <<"A", "B">>
\* 0: the file is absent; 1, 2: two successive contents of the file
Versions == {0, 1, 2}

\* The texts of the chunks RecursiveCharacterTextSplitter cuts a file's
\* content into.  A's second content keeps one chunk, replaces the others
\* and repeats a chunk; B's second content is empty text (no chunk at all).
ChunkTexts(f, v) ==
    IF f = "A" /\ v = 1 THEN <<"t1", "t2", "t3">>
    ELSE IF f = "A" /\ v = 2 THEN <<"t1", "t4", "t1">>
    ELSE IF f = "B" /\ v = 1 THEN <<"t1", "t5">>
    ELSE <<>>

VARIABLES
    dir,            \* the document directory: file -> version (0 = absent)
    documents,      \* the documents the running / last sync pass loaded
    todo,           \* chunks index() has not handled yet
    pc,             \* where the process is
    rec,            \* record_manager.db: key -> updated_at (0 old, 1 this pass)
    vs,             \* ids held by the in-memory FAISS store
    vsDisk,         \* the store files save_local wrote: [ok, ids]
    num_added,      \* index(): chunks embedded and added in this pass
    num_deleted,    \* index(): chunks deleted in this pass
    passStart,      \* what the store was when the pass began
    prevPass,       \* the documents of the pass completed just before
    more_diverse,   \* RAG.more_diverse
    use_rag,        \* ChatBot.use_rag
    retriever,      \* RAG.retriever (the cached strategy object)
    conversations,  \* chat_history.db: the conversations table (ids)
    messages,       \* chat_history.db: the messages table, in created_at order
    gen,            \* what the chat that produced this state did
    modeHist,       \* the mode operations just applied, with the mode before each
    initHist,       \* how the last constructions got their store, nothing between
    conversation_id, \* main: the current conversation (a local of main)
    usedIds,        \* the ids uuid4 has given out so far
    input,          \* main: the line read by input(), not yet handled
    call,           \* the conversation-store call that produced this state
    lastOp          \* the operation that produced this state

vars == <<dir, documents, todo, pc, rec, vs, vsDisk, num_added, num_deleted,
          passStart, prevPass, more_diverse, use_rag, retriever,
          conversations, messages, gen, modeHist, initHist, conversation_id,
          usedIds, input, call, lastOp>>

syncVars == <<documents, todo, rec, vs, vsDisk, num_added, num_deleted,
              passStart, prevPass>>
modeVars == <<more_diverse, use_rag, retriever>>
dbVars == <<conversations, messages>>
mainVars == <<conversation_id, usedIds, input>>

\* ----------------------------------------------------------------- helpers
Min(a, b) == IF a < b THEN a ELSE b

Range(s) == {s[i] : i \in DOMAIN s}

RECURSIVE FlattenSeq(_)
FlattenSeq(ss) ==
    IF ss = <<>> THEN <<>> ELSE Head(ss) \o FlattenSeq(Tail(ss))

\* ------------------------------------------------- loading and splitting
\* load_documents_from_directory: every regular file whose loader works
\* gives a Document; a file whose loader raises is skipped.
LoadDocuments(d, parsable) ==
    LET present == SelectSeq(FileOrder, LAMBDA f : d[f] # 0 /\ f \in parsable)
    IN  [i \in DOMAIN present |->
            [source |-> present[i], version |-> d[present[i]]]]

\* split_documents: the chunks of every document, in order, each carrying
\* its parent's source.
SplitDocuments(docs) ==
    FlattenSeq([i \in DOMAIN docs |->
        LET texts == ChunkTexts(docs[i].source, docs[i].version)
        IN  [j \in DOMAIN texts |->
                [source |-> docs[i].source, content |-> texts[j]]]])

\* index(): the uid of a chunk hashes its content and its metadata.
Key(chunk) == <<chunk.source, chunk.content>>

KeysOf(chunks) == {Key(chunks[i]) : i \in DOMAIN chunks}

\* index(): _deduplicate_in_order over the hashed documents of a batch
RECURSIVE DeduplicateInOrder(_)
DeduplicateInOrder(keys) ==
    IF keys = <<>> THEN <<>>
    ELSE LET rest == DeduplicateInOrder(SubSeq(keys, 1, Len(keys) - 1))
             last == keys[Len(keys)]
         IN  IF last \in Range(rest) THEN rest ELSE Append(rest, last)

\* the batch index() works on: the next batch_size chunks
Batch(chunks) == SubSeq(chunks, 1, Min(BatchSize, Len(chunks)))
AfterBatch(chunks) == SubSeq(chunks, Min(BatchSize, Len(chunks)) + 1, Len(chunks))

HashedBatch(chunks) ==
    LET b == Batch(chunks)
    IN  DeduplicateInOrder([i \in DOMAIN b |-> Key(b[i])])

\* ---------------------------------------------------------- record manager
\* record_manager.update(keys, time_at_least = index_start_dt): upsert, the
\* timestamp of every given key becomes that of the running pass.
RecordUpdateNoRefresh(r, keys) ==
    [k \in DOMAIN r \cup keys |-> IF k \in DOMAIN r THEN r[k] ELSE 1]

RecordUpdate(r, keys) ==
    [k \in DOMAIN r \cup keys |-> IF k \in keys THEN 1 ELSE r[k]]

\* record_manager.list_keys(before = index_start_dt)
ListKeysBefore(r) == {k \in DOMAIN r : r[k] < 1}

\* record_manager.delete_keys(keys)
DeleteKeys(r, keys) == [k \in DOMAIN r \ keys |-> r[k]]

\* record_manager.get_time() at the start of index(): every timestamp
\* written earlier is now before index_start_dt.
AgeRecords(r) == [k \in DOMAIN r |-> 0]

\* ------------------------------------------------------------- retriever
\* _create_retriever
CreateRetriever(diverse) ==
    IF diverse
    THEN [search_type |-> "mmr", k |-> RagK, fetch_k |-> RagFetchK]
    ELSE [search_type |-> "similarity", k |-> RagFetchK]

\* ------------------------------------------------------------ observation
\* passStart before any pass, gen when the last operation was no chat
NoPass ==
    [vs |-> {}, keys |-> {}, rec |-> <<>>, disk |-> [ok |-> TRUE, ids |-> {}],
     repeat |-> FALSE]

NoGen ==
    [outcome |-> "none", use_rag |-> FALSE, more_diverse |-> TRUE,
     search_type |-> "", query |-> "", contextualized |-> "",
     retrieverQuery |-> "", rerankerQuery |-> "", qaQuery |-> "",
     stages |-> <<>>, context |-> {}]

ObsReset == gen' = NoGen /\ modeHist' = <<>>

\* main's locals before main runs or after the process has ended
NoId == "none"
NoInput == [cmd |-> "none", arg |-> ""]
\* call when the last operation called no method of the conversation store
NoCall == [op |-> "none", id |-> NoId, known |-> FALSE, signal |-> "", result |-> <<>>]

\* a step inside an operation: main stays where it is
StepFrame ==
    /\ UNCHANGED mainVars
    /\ call' = NoCall
    /\ initHist' = <<>>

\* a command that has been handled: main is back at input()
CommandFrame ==
    /\ input' = NoInput
    /\ UNCHANGED <<conversation_id, usedIds>>
    /\ call' = NoCall
    /\ initHist' = <<>>

\* the process has ended: main's locals are gone with it
MainLost ==
    /\ conversation_id' = NoId
    /\ input' = NoInput
    /\ UNCHANGED usedIds

\* the pass observations, dropped by every operation that is no part of a pass
NoPrevPass == [valid |-> FALSE, docs |-> <<>>]
PassObsReset ==
    /\ documents' = <<>>
    /\ num_added' = 0
    /\ num_deleted' = 0
    /\ passStart' = NoPass
    /\ prevPass' = NoPrevPass

\* -------------------------------------------------------------------- Init
\* The state after the first construction on a fresh installation:
\* load_local failed, the empty store was created and saved, the record
\* table is empty, the directory holds no file yet.
Init ==
    /\ dir = [f \in Files |-> 0]
    /\ documents = <<>>
    /\ todo = <<>>
    /\ pc = "idle"
    /\ rec = <<>>
    /\ vs = {}
    /\ vsDisk = [ok |-> TRUE, ids |-> {}]
    /\ num_added = 0
    /\ num_deleted = 0
    /\ passStart = NoPass
    /\ prevPass = NoPrevPass
    /\ more_diverse = TRUE
    /\ use_rag = FALSE
    /\ retriever = CreateRetriever(TRUE)
    /\ conversations = {}
    /\ messages = <<>>
    /\ gen = NoGen
    /\ modeHist = <<>>
    /\ initHist = <<"fallback">>
    /\ conversation_id = NoId
    /\ usedIds = {}
    /\ input = NoInput
    /\ call = NoCall
    /\ lastOp = "init"

\* ------------------------------------------------------------ environment
\* The user puts, replaces or removes a file of the document directory.
EditDirectory(f, v) ==
    /\ pc = "idle"
    /\ dir[f] # v
    /\ dir' = [dir EXCEPT ![f] = v]
    /\ lastOp' = "edit"
    /\ UNCHANGED <<pc, syncVars, modeVars, dbVars>>
    /\ ObsReset
    /\ StepFrame

\* ------------------------------------------------------------------- sync
\* ChatBot.update_documents -> RAG.add_documents, up to the point where
\* index() has taken index_start_dt.  No document: early return.
SyncStart(parsable) ==
    /\ pc = "idle"
    /\ LET docs == LoadDocuments(dir, parsable)
           chunks == SplitDocuments(docs)
       IN  /\ documents' = docs
           /\ num_added' = 0
           /\ num_deleted' = 0
           /\ passStart' = [vs |-> vs, keys |-> DOMAIN rec,
                            rec |-> AgeRecords(rec), disk |-> vsDisk,
                            repeat |-> prevPass.valid /\ prevPass.docs = docs]
           /\ IF docs = <<>>
              THEN /\ pc' = "idle"
                   /\ lastOp' = "sync_returned"
                   /\ prevPass' = [valid |-> TRUE, docs |-> docs]
                   /\ UNCHANGED <<todo, rec>>
              ELSE /\ todo' = chunks
                   /\ rec' = AgeRecords(rec)
                   /\ pc' = IF chunks = <<>> THEN "cleanup" ELSE "index"
                   /\ lastOp' = "sync_start"
                   /\ UNCHANGED prevPass
    /\ UNCHANGED <<dir, vs, vsDisk, modeVars, dbVars>>
    /\ ObsReset
    /\ CommandFrame

\* index(), first half of a batch: refresh the records of the chunks that
\* are already indexed, then vector_store.add_documents (embedding) for
\* the others.  The embedding may fail; FAISS refuses an id it holds.
BatchEmbed ==
    /\ pc = "index"
    /\ LET hashed == HashedBatch(todo)
           uids_to_refresh == {k \in Range(hashed) : k \in DOMAIN rec}
           uids == Range(hashed) \ uids_to_refresh
       IN  /\ rec' = RecordUpdate(rec, uids_to_refresh)
           /\ \/ /\ uids \cap vs = {}
                 /\ vs' = vs \cup uids
                 /\ num_added' = num_added + Cardinality(uids)
                 /\ pc' = "record"
                 /\ lastOp' = "batch_embedded"
              \/ /\ uids # {}
                 /\ uids \cap vs = {}
                 /\ pc' = "stopped"
                 /\ lastOp' = "embed_failed"
                 /\ UNCHANGED <<vs, num_added>>
              \/ /\ uids \cap vs # {}
                 /\ pc' = "stopped"
                 /\ lastOp' = "add_refused"
                 /\ UNCHANGED <<vs, num_added>>
    /\ UNCHANGED <<dir, documents, todo, vsDisk, num_deleted, passStart,
                   prevPass, modeVars, dbVars>>
    /\ ObsReset
    /\ StepFrame

\* index(), second half of a batch: record every chunk of the batch.
BatchRecord ==
    /\ pc = "record"
    /\ rec' = RecordUpdate(rec, Range(HashedBatch(todo)))
    /\ todo' = AfterBatch(todo)
    /\ pc' = IF AfterBatch(todo) = <<>> THEN "cleanup" ELSE "index"
    /\ lastOp' = "batch_recorded"
    /\ UNCHANGED <<dir, documents, vs, vsDisk, num_added, num_deleted,
                   passStart, prevPass, modeVars, dbVars>>
    /\ ObsReset
    /\ StepFrame

\* index(), cleanup = "full": the records not seen in this pass are stale;
\* their vectors are deleted first.  FAISS.delete raises when it is given
\* an id it does not hold.
CleanupVectors ==
    /\ pc = "cleanup"
    /\ LET uids_to_delete == ListKeysBefore(rec)
       IN  IF uids_to_delete = {}
           THEN /\ pc' = "save"
                /\ lastOp' = "cleanup_none"
                /\ UNCHANGED vs
           ELSE IF uids_to_delete \subseteq vs
           THEN /\ vs' = vs \ uids_to_delete
                /\ pc' = "cleanup_records"
                /\ lastOp' = "vectors_deleted"
           ELSE /\ pc' = "stopped"
                /\ lastOp' = "delete_refused"
                /\ UNCHANGED vs
    /\ UNCHANGED <<dir, documents, todo, rec, vsDisk, num_added, num_deleted,
                   passStart, prevPass, modeVars, dbVars>>
    /\ ObsReset
    /\ StepFrame

\* index(), cleanup = "full": then the stale records are deleted.
CleanupRecords ==
    /\ pc = "cleanup_records"
    /\ rec' = DeleteKeys(rec, ListKeysBefore(rec))
    /\ num_deleted' = num_deleted + Cardinality(ListKeysBefore(rec))
    /\ pc' = "save"
    /\ lastOp' = "records_deleted"
    /\ UNCHANGED <<dir, documents, todo, vs, vsDisk, num_added, passStart,
                   prevPass, modeVars, dbVars>>
    /\ ObsReset
    /\ StepFrame

\* add_documents: vector_store.save_local, the end of the pass.
SaveLocal ==
    /\ pc = "save"
    /\ vsDisk' = [ok |-> TRUE, ids |-> vs]
    /\ pc' = "idle"
    /\ prevPass' = [valid |-> TRUE, docs |-> documents]
    /\ lastOp' = "sync_done"
    /\ UNCHANGED <<dir, documents, todo, rec, vs, num_added, num_deleted,
                   passStart, modeVars, dbVars>>
    /\ ObsReset
    /\ CommandFrame

\* ----------------------------------------------------------- process stop
\* The process ends (/exit, an interrupt, a kill) at any point; whatever
\* is only in memory is lost with it.
ProcessStop ==
    /\ pc # "stopped"
    /\ pc' = "stopped"
    /\ lastOp' = IF pc = "idle" THEN "exit" ELSE "interrupted"
    /\ prevPass' = NoPrevPass
    /\ UNCHANGED <<dir, documents, todo, rec, vs, vsDisk, num_added,
                   num_deleted, passStart, modeVars, dbVars>>
    /\ ObsReset
    /\ MainLost
    /\ call' = NoCall
    /\ initHist' = IF lastOp = "init" THEN initHist ELSE <<>>

\* The process ends while save_local is writing index.faiss / index.pkl in
\* place: the store files are left unreadable.  (A stop just before the
\* call, the files untouched, is ProcessStop at "save".)
TornSave ==
    /\ pc = "save"
    /\ vsDisk' = [ok |-> FALSE, ids |-> {}]
    /\ pc' = "stopped"
    /\ lastOp' = "save_interrupted"
    /\ prevPass' = NoPrevPass
    /\ UNCHANGED <<dir, documents, todo, rec, vs, num_added, num_deleted,
                   passStart, modeVars, dbVars>>
    /\ ObsReset
    /\ MainLost
    /\ call' = NoCall
    /\ initHist' = <<>>

\* _init_vector_store, the except branch: what save_local leaves under
\* VECTOR_STORE_PATH once the new empty store has been created
StoreFilesUnsaved(disk) == disk

StoreFilesAfterFallback(disk) == [ok |-> TRUE, ids |-> {}]

\* the last two constructions, as long as nothing but an exit lies between
PushInit(hist, path) ==
    LET h == Append(hist, path)
    IN  IF Len(h) > 2 THEN Tail(h) ELSE h

\* ChatBot.__init__ -> RAG.__init__.  The record table is opened as it is;
\* the store is loaded from its files, or replaced by a new empty store,
\* saved at once, when loading fails.  (The embedding of the probe text
\* "__dummy__" that sizes the new index is taken to succeed.)
Construct ==
    /\ pc = "stopped"
    /\ IF vsDisk.ok
       THEN /\ vs' = vsDisk.ids
            /\ UNCHANGED vsDisk
            /\ initHist' = PushInit(initHist, "loaded")
       ELSE /\ vs' = {}
            /\ vsDisk' = StoreFilesAfterFallback(vsDisk)
            /\ initHist' = PushInit(initHist, "fallback")
    /\ more_diverse' = TRUE
    /\ use_rag' = FALSE
    /\ retriever' = CreateRetriever(TRUE)
    /\ todo' = <<>>
    /\ prevPass' = NoPrevPass
    /\ documents' = <<>>
    /\ num_added' = 0
    /\ num_deleted' = 0
    /\ passStart' = NoPass
    /\ UNCHANGED <<dir, rec>>
    /\ ObsReset

\* A new process of a client that only constructs the ChatBot.
Restart ==
    /\ Construct
    /\ pc' = "idle"
    /\ lastOp' = "init"
    /\ call' = NoCall
    /\ UNCHANGED <<dbVars, mainVars>>

\* ------------------------------------------------------------------ modes
\* ChatBot.toggle_rag
ToggleRag ==
    /\ pc = "idle"
    /\ use_rag' = ~use_rag
    /\ lastOp' = "toggle_rag"
    /\ gen' = NoGen
    /\ modeHist' = <<>>
    /\ PassObsReset
    /\ CommandFrame
    /\ UNCHANGED <<dir, pc, todo, rec, vs, vsDisk, more_diverse, retriever, dbVars>>

\* RAG.change_type_of_search: the flag it stores
NewModeFlagFlipped(current, requested) == ~current

NewModeFlag(current, requested) == requested

\* RAG.change_type_of_search: the retriever it leaves
RetrieverKept(old, diverse) == old

RetrieverAfterChange(old, diverse) == CreateRetriever(diverse)

\* the last two mode operations, each with the mode it found
PushMode(hist, op, before) ==
    LET h == Append(hist, [op |-> op, before |-> before])
    IN  IF Len(h) > 2 THEN Tail(h) ELSE h

ChangeTypeOfSearch(op, requested) ==
    /\ pc = "idle"
    /\ more_diverse' = NewModeFlag(more_diverse, requested)
    /\ retriever' = RetrieverAfterChange(retriever, more_diverse')
    /\ modeHist' = PushMode(modeHist, op, more_diverse)
    /\ lastOp' = op
    /\ gen' = NoGen
    /\ PassObsReset
    /\ CommandFrame
    /\ UNCHANGED <<dir, pc, todo, rec, vs, vsDisk, use_rag, dbVars>>

\* ChatBot.toggle_more_diverse
ToggleMoreDiverse == ChangeTypeOfSearch("toggle_more_diverse", TRUE)

\* ChatBot.toggle_more_accurate
ToggleMoreAccurate == ChangeTypeOfSearch("toggle_more_accurate", FALSE)

\* ------------------------------------------------------------------- chat
Queries == {"q1", "q2"}
ConversationIds == {"c1"}
\* what the LLM may give back for a question put to the contextualizer:
\* the question as it is, or a standalone rewording of it
ContextualizeOutputs(query) == {query, "standalone"}
\* what the LLM may answer
Answers == {"answer"}

SubsetsOfSize(S, n) == {T \in SUBSET S : Cardinality(T) = n}

\* retriever.invoke: MMR picks k of the fetch_k nearest entries, similarity
\* search gives the k nearest; which entries these are is up to the
\* embeddings.
RetrieveResults(r, store) ==
    IF r.search_type = "mmr"
    THEN SubsetsOfSize(store, Min(r.k, Min(r.fetch_k, Cardinality(store))))
    ELSE SubsetsOfSize(store, Min(r.k, Cardinality(store)))

\* reranker.compress_documents: the top_n best scored of the candidates
RerankResults(docs) == SubsetsOfSize(docs, Min(RerankerTopN, Cardinality(docs)))

\* generate: whether the reranker runs
RerankAlways(diverse) == TRUE

RerankNeeded(diverse) == ~diverse

\* generate: the "query" the qa chain is invoked with
QaQueryContextualized(query, contextualized) == contextualized

QaQuery(query, contextualized) == query

\* generate reads the vector store (retriever.invoke, compress_documents)
\* and writes nothing to it
VectorStoreEmptied(store) == {}

VectorStoreAfterGenerate(store) == store

\* ChatBot.get_conversation_history: the messages of the conversation, in
\* the order of the table
ConversationHistory(cid) ==
    SelectSeq(messages, LAMBDA m : m.conversation_id = cid)

\* The calls generate makes up to the one that fails (failAt), in order.
Stages(rerank, failAt) ==
    <<"contextualize">>
    \o (IF failAt = "contextualize" THEN <<>> ELSE <<"retrieve">>)
    \o (IF failAt \in {"contextualize", "retrieve"} \/ ~rerank
        THEN <<>> ELSE <<"rerank">>)
    \o (IF failAt = "none" THEN <<"qa">>
        ELSE IF failAt = "qa" THEN <<"qa">> ELSE <<>>)

\* RAG.generate: contextualize, retrieve, rerank in Accurate mode, answer.
\* The record of one run; a call that raises ends the run.
Generate(query, contextualized, retrieved, reranked, failAt) ==
    LET rerank == RerankNeeded(more_diverse)
        stages == Stages(rerank, failAt)
        ran(s) == s \in Range(stages)
    IN  [outcome |-> IF failAt = "none" THEN "ok" ELSE "failed",
         use_rag |-> TRUE,
         more_diverse |-> more_diverse,
         search_type |-> IF ran("retrieve") THEN retriever.search_type ELSE "",
         query |-> query,
         contextualized |-> IF failAt = "contextualize" THEN "" ELSE contextualized,
         retrieverQuery |-> IF ran("retrieve") THEN contextualized ELSE "",
         rerankerQuery |-> IF ran("rerank") THEN contextualized ELSE "",
         qaQuery |-> IF ran("qa") THEN QaQuery(query, contextualized) ELSE "",
         stages |-> stages,
         context |-> IF ran("qa") THEN (IF rerank THEN reranked ELSE retrieved)
                     ELSE {}]

\* ChatBot.chat with use_rag off: one call of the plain chain
PlainRun(query, failAt) ==
    [outcome |-> IF failAt = "none" THEN "ok" ELSE "failed",
     use_rag |-> FALSE,
     more_diverse |-> more_diverse,
     search_type |-> "", query |-> query, contextualized |-> "",
     retrieverQuery |-> "", rerankerQuery |-> "", qaQuery |-> query,
     stages |-> <<"qa">>, context |-> {}]

\* ChatBot.chat: what it has saved when the pipeline is called
HumanSavedBeforeRun(cid, query) ==
    <<[conversation_id |-> cid, role |-> "human", content |-> query]>>

SavedBeforeRun(cid, query) == <<>>

\* ChatBot.chat: the two save_message calls after the response, in order
ChatMessagesAiFirst(cid, query, response) ==
    <<[conversation_id |-> cid, role |-> "ai", content |-> response],
      [conversation_id |-> cid, role |-> "human", content |-> query]>>

ChatMessages(cid, query, response) ==
    <<[conversation_id |-> cid, role |-> "human", content |-> query],
      [conversation_id |-> cid, role |-> "ai", content |-> response]>>

\* what a call of chat showed its caller
ChatCall(cid, signal, result) ==
    [op |-> "chat", id |-> cid, known |-> cid \in conversations,
     signal |-> signal, result |-> result]

\* ChatBot.chat: read the history, run the pipeline, save the two messages.
\* An exception, of the history read (storeFail = "history"), of a model
\* call (run.outcome) or of one of the two save_message calls, leaves chat
\* at that point and, uncaught by main, ends the process.  save_message
\* inserts the conversation row when the id has none.
ChatEffect(cid, query, run, answer, storeFail) ==
    /\ vs' = VectorStoreAfterGenerate(vs)
    /\ IF storeFail = "history"
       THEN /\ gen' = NoGen
            /\ UNCHANGED dbVars
            /\ pc' = "stopped"
            /\ lastOp' = "chat_store_failed"
            /\ call' = ChatCall(cid, "storage_error", <<>>)
            /\ MainLost
       ELSE IF run.outcome # "ok"
       THEN /\ gen' = run
            /\ messages' = messages \o SavedBeforeRun(cid, query)
            /\ UNCHANGED conversations
            /\ pc' = "stopped"
            /\ lastOp' = "chat_failed"
            /\ call' = ChatCall(cid, "model_error", <<>>)
            /\ MainLost
       ELSE LET new == ChatMessages(cid, query, answer)
                saved == IF storeFail = "save_human" THEN <<>>
                         ELSE IF storeFail = "save_ai" THEN <<new[1]>>
                         ELSE new
            IN  /\ gen' = run
                /\ Len(messages) + Len(new) <= MaxMessages
                /\ messages' = messages \o saved
                /\ conversations' = IF saved = <<>> THEN conversations
                                    ELSE conversations \cup {cid}
                /\ IF storeFail = "none"
                   THEN /\ pc' = "idle"
                        /\ lastOp' = "chat_ok"
                        /\ call' = ChatCall(cid, "ok", <<answer>>)
                        /\ input' = NoInput
                        /\ UNCHANGED <<conversation_id, usedIds>>
                   ELSE /\ pc' = "stopped"
                        /\ lastOp' = "chat_store_failed"
                        /\ call' = ChatCall(cid, "storage_error", <<>>)
                        /\ MainLost
    /\ modeHist' = <<>>
    /\ PassObsReset
    /\ initHist' = <<>>
    /\ UNCHANGED <<dir, todo, rec, vsDisk, modeVars>>

\* the store call of chat that raises, if any
StoreFailures == {"none", "history", "save_human", "save_ai"}

\* chat, the store calls that may raise being those of failures
ChatWith(query, cid, failures) ==
    /\ pc = "idle"
    /\ \E storeFail \in failures :
          IF use_rag
          THEN \E contextualized \in ContextualizeOutputs(query),
                  retrieved \in RetrieveResults(retriever, vs),
                  failAt \in {"none", "contextualize", "retrieve", "rerank", "qa"} :
                  /\ failAt = "rerank" => RerankNeeded(more_diverse)
                  /\ storeFail # "none" => failAt = "none"
                  /\ \E reranked \in RerankResults(retrieved), answer \in Answers :
                         ChatEffect(cid, query,
                             Generate(query, contextualized, retrieved, reranked, failAt),
                             answer, storeFail)
          ELSE \E failAt \in {"none", "qa"}, answer \in Answers :
                  /\ storeFail # "none" => failAt = "none"
                  /\ ChatEffect(cid, query, PlainRun(query, failAt), answer,
                                storeFail)

Chat(query, cid) == ChatWith(query, cid, StoreFailures)


\* -------------------------------------------------------------------- Next
Next ==
    \/ \E f \in Files, v \in Versions : EditDirectory(f, v)
    \/ \E parsable \in SUBSET Files : SyncStart(parsable)
    \/ BatchEmbed
    \/ BatchRecord
    \/ CleanupVectors
    \/ CleanupRecords
    \/ SaveLocal
    \/ ProcessStop
    \/ TornSave
    \/ Restart

Spec == Init /\ [][Next]_vars

\* ---------------------------------------------------------- the query side
\* A process that has indexed the directory as it was (indexed), after
\* which the user may have edited it (dir); from there every operation of
\* the chat bot over that directory.
InitQuery ==
    /\ dir \in [Files -> Versions]
    /\ \E indexed \in [Files -> Versions] :
          LET keys == KeysOf(SplitDocuments(LoadDocuments(indexed, Files)))
          IN  /\ vs = keys
              /\ rec = [k \in keys |-> 1]
              /\ vsDisk = [ok |-> TRUE, ids |-> keys]
    /\ documents = <<>>
    /\ todo = <<>>
    /\ pc = "idle"
    /\ num_added = 0
    /\ num_deleted = 0
    /\ passStart = NoPass
    /\ prevPass = NoPrevPass
    /\ more_diverse = TRUE
    /\ use_rag = FALSE
    /\ retriever = CreateRetriever(TRUE)
    /\ conversations = {}
    /\ messages = <<>>
    /\ gen = NoGen
    /\ modeHist = <<>>
    /\ initHist = <<>>
    /\ conversation_id = NoId
    /\ usedIds = {}
    /\ input = NoInput
    /\ call = NoCall
    /\ lastOp = "init"

\* The query side asks one question of one conversation over a store that
\* answers (the failures of the conversation store are explored in
\* SpecStore): what is checked here is where the question goes, which the
\* reworded "standalone" tells apart.
QuerySideQueries == {"q1"}

ChatOverStore(query, cid) == ChatWith(query, cid, {"none"})

NextQuery ==
    \/ ToggleRag
    \/ ToggleMoreDiverse
    \/ ToggleMoreAccurate
    \/ \E query \in QuerySideQueries, cid \in ConversationIds :
          ChatOverStore(query, cid)
    \/ \E parsable \in SUBSET Files : SyncStart(parsable)
    \/ BatchEmbed
    \/ BatchRecord
    \/ CleanupVectors
    \/ CleanupRecords
    \/ SaveLocal
    \/ ProcessStop
    \/ TornSave
    \/ Restart

SpecQuery == InitQuery /\ [][NextQuery]_vars

\* ------------------------------------------------- the conversation store
\* the ids a caller may name; uuid4 draws from them
AllIds == {"c1", "c2", "c3"}

\* uuid.uuid4(): an id that no conversation has and that was never given
FreshIds == AllIds \ (usedIds \cup conversations)

\* an operation that touches neither the RAG state nor the directory
RagIdle ==
    /\ UNCHANGED <<dir, todo, rec, vs, vsDisk, modeVars>>
    /\ PassObsReset
    /\ ObsReset
    /\ initHist' = <<>>

\* what a call of a conversation method showed its caller: the value it
\* returned (signal "ok", or "not_found" for False) or the RuntimeError
\* every method of ChatDatabase wraps an sqlite3 error in
StoreCall(op, cid, signal, result) ==
    [op |-> op, id |-> cid, known |-> cid \in conversations,
     signal |-> signal, result |-> result]

\* ChatDatabase.delete_conversation: True, or False when the id has no row
DeleteSignalAlwaysOk(convs, cid) == "ok"

DeleteSignal(convs, cid) == IF cid \in convs THEN "ok" ELSE "not_found"

MessagesWithout(msgs, cid) ==
    SelectSeq(msgs, LAMBDA m : m.conversation_id # cid)

\* ChatDatabase.delete_conversation: the tables it leaves
DeleteOutcome(convs, msgs, cid, failed) ==
    IF failed
    THEN [signal |-> "storage_error", conversations |-> convs, messages |-> msgs]
    ELSE IF cid \notin convs
    THEN [signal |-> DeleteSignal(convs, cid), conversations |-> convs,
          messages |-> msgs]
    ELSE [signal |-> DeleteSignal(convs, cid), conversations |-> convs \ {cid},
          messages |-> MessagesWithout(msgs, cid)]

\* ChatBot.create_new_conversation
CreateNewConversation(failed) ==
    /\ pc = "idle"
    /\ IF failed
       THEN /\ call' = StoreCall("create", NoId, "storage_error", <<>>)
            /\ UNCHANGED <<dbVars, usedIds>>
       ELSE \E new \in FreshIds :
               /\ conversations' = conversations \cup {new}
               /\ usedIds' = usedIds \cup {new}
               /\ call' = StoreCall("create", new, "ok", <<>>)
               /\ UNCHANGED messages
    /\ lastOp' = "create"
    /\ UNCHANGED <<pc, conversation_id, input>>
    /\ RagIdle

\* ChatBot.delete_conversation
DeleteConversation(cid, failed) ==
    /\ pc = "idle"
    /\ LET out == DeleteOutcome(conversations, messages, cid, failed)
       IN  /\ conversations' = out.conversations
           /\ messages' = out.messages
           /\ call' = StoreCall("delete", cid, out.signal, <<>>)
    /\ lastOp' = "delete"
    /\ UNCHANGED <<pc, mainVars>>
    /\ RagIdle

\* ChatBot.get_conversation_history
GetConversationHistory(cid, failed) ==
    /\ pc = "idle"
    /\ call' = IF failed THEN StoreCall("history", cid, "storage_error", <<>>)
               ELSE StoreCall("history", cid, "ok", ConversationHistory(cid))
    /\ lastOp' = "history"
    /\ UNCHANGED <<pc, dbVars, mainVars>>
    /\ RagIdle

\* the ids the client names in its calls
CallerIds == {"c1", "c2"}

\* A client of ChatBot that calls the conversation methods and chat with
\* ids of its choice, existing or not, over a conversation store whose
\* calls may fail.
NextStore ==
    \/ \E failed \in BOOLEAN : CreateNewConversation(failed)
    \/ \E cid \in CallerIds, failed \in BOOLEAN : DeleteConversation(cid, failed)
    \/ \E cid \in CallerIds, failed \in BOOLEAN :
          GetConversationHistory(cid, failed)
    \/ \E query \in Queries, cid \in CallerIds : Chat(query, cid)
    \/ ToggleRag
    \/ ProcessStop
    \/ Restart

SpecStore == Init /\ [][NextStore]_vars

\* ---------------------------------------------------------------- main
\* The lines the user types: a command with its argument ("" when the
\* argument is missing), or a question.  "list" stands for the commands
\* that only print.
MainInputs ==
    {[cmd |-> c, arg |-> ""] : c \in {"exit", "rag", "new", "list"}}
    \cup {[cmd |-> c, arg |-> a] : c \in {"select", "delete"}, a \in AllIds \cup {""}}
    \cup {[cmd |-> "chat", arg |-> q] : q \in Queries}

\* main up to the loop, on a new installation: the ChatBot is constructed
\* and the first conversation created.
InitMain ==
    /\ dir = [f \in Files |-> 0]
    /\ documents = <<>>
    /\ todo = <<>>
    /\ pc = "idle"
    /\ rec = <<>>
    /\ vs = {}
    /\ vsDisk = [ok |-> TRUE, ids |-> {}]
    /\ num_added = 0
    /\ num_deleted = 0
    /\ passStart = NoPass
    /\ prevPass = NoPrevPass
    /\ more_diverse = TRUE
    /\ use_rag = FALSE
    /\ retriever = CreateRetriever(TRUE)
    /\ conversation_id \in AllIds
    /\ conversations = {conversation_id}
    /\ usedIds = {conversation_id}
    /\ messages = <<>>
    /\ gen = NoGen
    /\ modeHist = <<>>
    /\ initHist = <<"fallback">>
    /\ input = NoInput
    /\ call = [op |-> "create", id |-> conversation_id, known |-> FALSE,
               signal |-> "ok", result |-> <<>>]
    /\ lastOp = "init"

\* an exception that main does not catch: the process ends
MainFailed ==
    /\ pc' = "stopped"
    /\ lastOp' = "main_failed"
    /\ MainLost
    /\ UNCHANGED dbVars

\* main, a new process: ChatBot() and the first create_new_conversation()
MainStart(failed) ==
    /\ Construct
    /\ IF failed
       THEN /\ pc' = "stopped"
            /\ lastOp' = "main_failed"
            /\ call' = StoreCall("create", NoId, "storage_error", <<>>)
            /\ UNCHANGED <<dbVars, mainVars>>
       ELSE \E new \in FreshIds :
               /\ conversations' = conversations \cup {new}
               /\ usedIds' = usedIds \cup {new}
               /\ conversation_id' = new
               /\ call' = StoreCall("create", new, "ok", <<>>)
               /\ pc' = "idle"
               /\ lastOp' = "init"
               /\ UNCHANGED <<messages, input>>

\* main, the top of the loop: a line is read; a current conversation that
\* does not exist is replaced by a new one.
ReadInput(line, failed) ==
    /\ pc = "idle"
    /\ input = NoInput
    /\ IF failed
       THEN /\ MainFailed
            /\ call' = StoreCall("exists", conversation_id, "storage_error", <<>>)
       ELSE IF conversation_id \in conversations
       THEN /\ input' = line
            /\ lastOp' = "input"
            /\ call' = StoreCall("exists", conversation_id, "ok", <<>>)
            /\ UNCHANGED <<pc, dbVars, conversation_id, usedIds>>
       ELSE \E new \in FreshIds :
               /\ conversations' = conversations \cup {new}
               /\ usedIds' = usedIds \cup {new}
               /\ conversation_id' = new
               /\ input' = line
               /\ lastOp' = "input_replaced"
               /\ call' = StoreCall("create", new, "ok", <<>>)
               /\ UNCHANGED <<pc, messages>>
    /\ RagIdle

\* /exit
MainExit ==
    /\ pc = "idle"
    /\ input.cmd = "exit"
    /\ pc' = "stopped"
    /\ lastOp' = "exit"
    /\ MainLost
    /\ call' = NoCall
    /\ UNCHANGED dbVars
    /\ RagIdle

\* /rag
MainRag ==
    /\ input.cmd = "rag"
    /\ ToggleRag

\* /new
MainNew(failed) ==
    /\ pc = "idle"
    /\ input.cmd = "new"
    /\ IF failed
       THEN /\ MainFailed
            /\ call' = StoreCall("create", NoId, "storage_error", <<>>)
       ELSE \E new \in FreshIds :
               /\ conversations' = conversations \cup {new}
               /\ usedIds' = usedIds \cup {new}
               /\ conversation_id' = new
               /\ input' = NoInput
               /\ lastOp' = "new"
               /\ call' = StoreCall("create", new, "ok", <<>>)
               /\ UNCHANGED <<pc, messages>>
    /\ RagIdle

\* /list (get_conversations), /help and the other commands that only print
MainList(failed) ==
    /\ pc = "idle"
    /\ input.cmd = "list"
    /\ IF failed
       THEN MainFailed
       ELSE /\ input' = NoInput
            /\ lastOp' = "list"
            /\ UNCHANGED <<pc, dbVars, conversation_id, usedIds>>
    /\ call' = NoCall
    /\ RagIdle

\* /select <id>: the id main goes on with
SelectedIdUnchecked(current, select_id, convs) == select_id

SelectedId(current, select_id, convs) ==
    IF select_id \in convs THEN select_id ELSE current

\* /select <id>.  A missing argument and a failing conversation_exists
\* both end in the except branch, which only prints.
MainSelect(failed) ==
    /\ pc = "idle"
    /\ input.cmd = "select"
    /\ IF input.arg = ""
       THEN /\ call' = NoCall
            /\ UNCHANGED conversation_id
       ELSE IF failed
       THEN /\ call' = StoreCall("exists", input.arg, "storage_error", <<>>)
            /\ UNCHANGED conversation_id
       ELSE /\ call' = StoreCall("exists", input.arg, "ok", <<>>)
            /\ conversation_id' = SelectedId(conversation_id, input.arg, conversations)
    /\ input' = NoInput
    /\ lastOp' = "select"
    /\ UNCHANGED <<pc, dbVars, usedIds>>
    /\ RagIdle

\* /delete <id>.  Deleting the current conversation creates a new one; an
\* exception of either call ends in the except branch, which only prints.
MainDelete(failedDelete, failedCreate) ==
    /\ pc = "idle"
    /\ input.cmd = "delete"
    /\ IF input.arg = ""
       THEN /\ call' = NoCall
            /\ lastOp' = "delete"
            /\ UNCHANGED <<dbVars, conversation_id, usedIds>>
       ELSE LET out == DeleteOutcome(conversations, messages, input.arg,
                                     failedDelete)
            IN  /\ messages' = out.messages
                /\ call' = StoreCall("delete", input.arg, out.signal, <<>>)
                /\ IF out.signal = "ok" /\ input.arg = conversation_id
                   THEN IF failedCreate
                        THEN /\ conversations' = out.conversations
                             /\ lastOp' = "delete_create_failed"
                             /\ UNCHANGED <<conversation_id, usedIds>>
                        ELSE \E new \in FreshIds :
                                /\ conversations' = out.conversations \cup {new}
                                /\ usedIds' = usedIds \cup {new}
                                /\ conversation_id' = new
                                /\ lastOp' = "delete"
                   ELSE /\ conversations' = out.conversations
                        /\ lastOp' = "delete"
                        /\ UNCHANGED <<conversation_id, usedIds>>
    /\ input' = NoInput
    /\ UNCHANGED pc
    /\ RagIdle

\* a question: chat_bot.chat(query, conversation_id)
MainChat ==
    /\ input.cmd = "chat"
    /\ Chat(input.arg, conversation_id)

\* main over the conversation store: the document directory is empty and
\* stays so, the mode switches other than /rag and /update_documents are
\* those of SpecQuery.
NextMain ==
    \/ \E line \in MainInputs, failed \in BOOLEAN : ReadInput(line, failed)
    \/ MainExit
    \/ MainRag
    \/ \E failed \in BOOLEAN : MainNew(failed)
    \/ \E failed \in BOOLEAN : MainList(failed)
    \/ \E failed \in BOOLEAN : MainSelect(failed)
    \/ \E failedDelete \in BOOLEAN, failedCreate \in BOOLEAN :
          MainDelete(failedDelete, failedCreate)
    \/ MainChat
    \/ ProcessStop
    \/ \E failed \in BOOLEAN : MainStart(failed)

SpecMain == InitMain /\ [][NextMain]_vars

\* ================================================================= claims
PassEnded == pc = "idle" /\ lastOp \in {"sync_done", "sync_returned"}

PassAborted ==
    pc = "stopped"
    /\ lastOp \in {"interrupted", "embed_failed", "add_refused", "delete_refused"}

\* C1: after every sync pass that returns without error, the vector store
\* holds exactly the chunks of the documents the pass loaded, whatever the
\* directory holds (also when it holds nothing any more).
C1_FullCleanup ==
    PassEnded => vs = KeysOf(SplitDocuments(documents))

\* C2: a sync pass that directly follows a completed pass over the same
\* documents embeds nothing, deletes nothing and leaves the vector store,
\* the persisted store and the key set of the record table as they were.
C2_SyncIdempotent ==
    (PassEnded /\ passStart.repeat) =>
        /\ num_added = 0
        /\ num_deleted = 0
        /\ vs = passStart.vs
        /\ vsDisk = passStart.disk
        /\ DOMAIN rec = passStart.keys

\* a second pass over the same, non-empty, indexed documents has ended
C2_Witness ==
    /\ PassEnded
    /\ lastOp = "sync_done"
    /\ passStart.repeat
    /\ Cardinality(vs) > BatchSize

\* C3: when the embedding fails during a pass, the state the aborted pass
\* leaves behind has every key either in both the record table and the
\* vector store or in neither.
C3_FailureConsistency ==
    (pc = "stopped" /\ lastOp = "embed_failed") => DOMAIN rec = vsDisk.ids

\* C4: a pass interrupted before save_local leaves the persisted store (the
\* store files and the record table beside them) as it was when the pass
\* began.
C4_InterruptedPassLeavesDisk ==
    PassAborted => (vsDisk = passStart.disk /\ rec = passStart.rec)

\* a chat ran the RAG pipeline to its end
RagAnswered == gen.outcome = "ok" /\ gen.use_rag

\* the mode an operation selects
Selects(op) == op = "toggle_more_diverse"

\* C5 as stated: two mode operations in a row give back the mode that was
\* there before them.
C5_TwoTogglesRestoreMode ==
    Len(modeHist) = 2 => more_diverse = modeHist[1].before

\* C5 as amended: each mode operation selects its mode, whatever the mode
\* before, so that applying one twice is applying it once; two operations
\* give back the original mode exactly when the second selects it.
C5_ModeOperationsSelect ==
    /\ lastOp = "toggle_more_diverse" => more_diverse
    /\ lastOp = "toggle_more_accurate" => ~more_diverse
    /\ (Len(modeHist) = 2 /\ modeHist[1].op = modeHist[2].op) =>
           more_diverse = modeHist[2].before
    /\ Len(modeHist) = 2 =>
           ((more_diverse = modeHist[1].before)
                <=> (Selects(modeHist[2].op) = modeHist[1].before))

\* from Diverse mode, toggle_more_accurate was applied twice
C5_Witness ==
    /\ Len(modeHist) = 2
    /\ modeHist[1] = [op |-> "toggle_more_accurate", before |-> TRUE]
    /\ modeHist[2].op = "toggle_more_accurate"
    /\ ~more_diverse

\* C6: in Accurate mode generate hands at most k chunks to the qa chain.
C6_AccurateHandsAtMostK ==
    (RagAnswered /\ ~gen.more_diverse) => Cardinality(gen.context) <= RagK

\* C7 as stated: the query the qa chain is invoked with is the
\* contextualized query.
C7_QaGetsContextualizedQuery ==
    RagAnswered => gen.qaQuery = gen.contextualized

\* C7 as amended: the qa chain is invoked with the user's query as it was
\* given to generate; the contextualized query is what the retriever and
\* the reranker are invoked with.
C7_QaGetsUserQuery ==
    gen.use_rag =>
        /\ "qa" \in Range(gen.stages) => gen.qaQuery = gen.query
        /\ "retrieve" \in Range(gen.stages) =>
               gen.retrieverQuery = gen.contextualized
        /\ "rerank" \in Range(gen.stages) =>
               gen.rerankerQuery = gen.contextualized

\* an Accurate-mode run whose question the contextualizer reworded
C7_Witness ==
    /\ RagAnswered
    /\ ~gen.more_diverse
    /\ gen.contextualized # gen.query
    /\ gen.context # {}

Positions(stages, s) == {i \in DOMAIN stages : stages[i] = s}

\* C8: a run of generate invokes the reranker never in Diverse mode and,
\* in Accurate mode, exactly once: directly after the retriever has
\* returned and before the qa chain.
C8_RerankOnlyInAccurate ==
    (gen.outcome # "none") =>
        LET reranks == Positions(gen.stages, "rerank")
            retrieves == Positions(gen.stages, "retrieve")
            qas == Positions(gen.stages, "qa")
        IN  /\ (gen.more_diverse \/ ~gen.use_rag) => reranks = {}
            /\ (gen.use_rag /\ ~gen.more_diverse) =>
                  /\ Cardinality(reranks) <= 1
                  /\ \A i \in retrieves : i < Len(gen.stages) => reranks = {i + 1}
                  /\ \A j \in qas : reranks = {j - 1}

\* an Accurate-mode run that answered: contextualizer, retriever, reranker,
\* qa chain, each once and in this order
C8_Witness ==
    /\ RagAnswered
    /\ ~gen.more_diverse
    /\ gen.stages = <<"contextualize", "retrieve", "rerank", "qa">>

\* C9: the cached retriever is the strategy of the current mode: MMR with
\* (k, fetch_k) in Diverse mode, similarity search with fetch_k in Accurate
\* mode; a retrieval uses the strategy of the mode it runs in.
C9_RetrieverMatchesMode ==
    /\ more_diverse =>
           retriever = [search_type |-> "mmr", k |-> RagK, fetch_k |-> RagFetchK]
    /\ ~more_diverse =>
           retriever = [search_type |-> "similarity", k |-> RagFetchK]
    /\ "retrieve" \in Range(gen.stages) =>
           gen.search_type = IF gen.more_diverse THEN "mmr" ELSE "similarity"

\* the first chat after the switch to Accurate mode retrieved by similarity
C9_Witness ==
    /\ lastOp = "chat_ok"
    /\ ~more_diverse
    /\ gen.search_type = "similarity"

StoreState == <<vs, rec, vsDisk>>

\* the steps of a sync pass (SyncStart .. SaveLocal, TornSave)
PassOps ==
    {"sync_start", "sync_returned", "batch_embedded", "embed_failed",
     "add_refused", "batch_recorded", "cleanup_none", "vectors_deleted",
     "delete_refused", "records_deleted", "sync_done", "save_interrupted"}

\* C10: a chat, in either mode, with RAG on or off, answered or failed,
\* leaves the vector store, the record table and the persisted store as
\* they were; they change only in a step of a sync pass or in the
\* construction of RAG.
C10_QueryPathReadOnly ==
    [][/\ lastOp' \in {"chat_ok", "chat_failed"} => StoreState' = StoreState
       /\ StoreState' # StoreState => lastOp' \in PassOps \cup {"init"}]_vars

\* a chat answered from a non-empty index
C10_Witness ==
    /\ lastOp = "chat_ok"
    /\ gen.use_rag
    /\ gen.context # {}
    /\ vs # {}

\* C11: a construction whose load_local failed leaves a new empty store in
\* memory and the same empty store, readable, on disk, and the process is
\* up; the construction that follows it with nothing in between loads
\* that store and does not fall back again.
C11_FallbackThenLoad ==
    /\ (lastOp = "init" /\ initHist # <<>> /\ initHist[Len(initHist)] = "fallback")
          => /\ pc = "idle"
             /\ vs = {}
             /\ vsDisk = [ok |-> TRUE, ids |-> {}]
    /\ (Len(initHist) = 2 /\ initHist[1] = "fallback")
          => /\ initHist[2] = "loaded"
             /\ lastOp = "init" => vs = {}

\* a process that found the store files unreadable (a save was torn), fell
\* back, exited, and has been constructed again
C11_Witness ==
    /\ lastOp = "init"
    /\ initHist = <<"fallback", "loaded">>
    /\ rec # <<>>

\* C15: right after a construction the record table and the loaded store
\* hold the same keys.
C15_InitStoreMatchesRecords ==
    (pc = "idle" /\ lastOp = "init") => DOMAIN rec = vs

\* C14: a chat in which a model call fails (contextualization, retrieval,
\* reranking, answer, or the plain chain with RAG off) hands the error to
\* its caller, has called no stage twice, and leaves the conversations and
\* messages tables as they were.
C14_FailedChatLeavesStore ==
    [][lastOp' = "chat_failed"
          => /\ UNCHANGED dbVars
             /\ call'.signal = "model_error"
             /\ gen'.outcome = "failed"
             /\ \A i, j \in DOMAIN gen'.stages :
                   i # j => gen'.stages[i] # gen'.stages[j]]_vars

\* a RAG chat of a conversation that has messages failed after its first
\* stage
C14_Witness ==
    /\ lastOp = "chat_failed"
    /\ gen.use_rag
    /\ Len(gen.stages) > 1
    /\ ConversationHistory(call.id) # <<>>

\* C12, as the specification states it: every conversation operation given
\* an id that has no conversation ends in "not found" (or in the storage
\* error that "not found" is to be told from).
C12_UnknownIdIsNotFound ==
    (call.op \in {"history", "chat", "delete"} /\ ~call.known)
        => call.signal \in {"not_found", "storage_error"}

\* C12, amended: delete tells an unknown id ("not_found", the value False)
\* from a storage failure (RuntimeError) and from a deletion; the history
\* of an unknown id is the empty history, returned without an error; a
\* chat with an unknown id that succeeds has created the conversation and
\* saved its two messages.
C12_UnknownIdSignals ==
    /\ call.op = "delete"
          => /\ call.signal \in {"ok", "not_found", "storage_error"}
             /\ call.signal = "not_found" => ~call.known
             /\ call.signal = "ok" => call.known /\ call.id \notin conversations
             /\ ~call.known => call.signal # "ok"
    /\ (call.op = "history" /\ ~call.known)
          => /\ call.signal \in {"ok", "storage_error"}
             /\ call.result = <<>>
    /\ (call.op = "chat" /\ ~call.known)
          => /\ call.signal \in {"ok", "model_error", "storage_error"}
             /\ call.signal = "ok"
                   => /\ call.id \in conversations
                      /\ ConversationHistory(call.id)
                            = ChatMessages(call.id, gen.query, call.result[1])

\* delete was given an id that has no conversation while others exist, and
\* the store answered
C12_Witness ==
    /\ call.op = "delete"
    /\ ~call.known
    /\ call.signal = "not_found"
    /\ conversations # {}
    /\ messages # <<>>

\* s is the beginning of t
IsPrefix(s, t) == Len(s) <= Len(t) /\ SubSeq(t, 1, Len(s)) = s

C16_ChatOnExistingConversation ==
    [][/\ call'.op = "chat" => call'.known /\ call'.id = conversation_id
       /\ input' # NoInput => conversation_id' \in conversations'
       /\ lastOp' = "select"
             => /\ conversation_id' \in conversations'
                /\ conversation_id' # conversation_id
                      => conversation_id' = input.arg /\ input.arg \in conversations
       /\ (lastOp' = "delete" /\ call'.signal = "ok" /\ call'.id = conversation_id)
             => /\ conversation_id \notin conversations'
                /\ conversation_id' \notin conversations
                /\ conversation_id' \in conversations']_vars

\* a chat succeeded in the one conversation left after every id of the pool
\* has been created and the others deleted
C16_Witness ==
    /\ lastOp = "chat_ok"
    /\ call.id = conversation_id
    /\ usedIds = AllIds
    /\ conversations = {conversation_id}

====
